---- MODULE Spec2Model ----
(***************************************************************************)
(* Model of rooma's chore rotation service (src/app.py): the SQLite store  *)
(* (members, chores, assignments), the fairness ranker                     *)
(* pick_member_round_robin, and the request handlers add_member,           *)
(* add_chore, rotate, get_current_assignments and complete_assignment,     *)
(* each served by its own worker on its own connection.                    *)
(*                                                                         *)
(* Dates.  A datetime.date is modelled by its day number, day 0 being a    *)
(* Monday.  The text that iso_date makes of it is modelled by the number   *)
(* read off its fixed-width fields, week then weekday (day 10 is week 1,   *)
(* weekday 3, text 13): SQLite compares week_start as TEXT, and for        *)
(* fixed-width fields that is the order of these numbers.                  *)
(*                                                                         *)
(* Transactions.  Python's sqlite3 runs a SELECT in autocommit mode and    *)
(* opens a transaction before the first INSERT or UPDATE; the rows a       *)
(* connection has inserted are visible to the other connections only once  *)
(* it commits, and while it holds the write lock every other writer waits  *)
(* on the connection's busy handler.  The model keeps the committed tables *)
(* and, for the one connection holding the write lock, its pending rows.   *)
(***************************************************************************)
EXTENDS Integers, Sequences, FiniteSets, TLC

\* ------------------------------------------------------------------ bounds
MaxMembers == 2
MaxChores == 3
MaxDone == 1
MaxRankMembers == 4
MaxCount == 3

\* ------------------------------------------------------- sets of the model
Procs == {1, 2}
Households == {1}
NoWeek == -1
NULL == "null"
Proofs == {NULL, "u1"}
DaysPerWeek == 7

VARIABLES
    members,       \* table members: row id = index, <<household_id, join_order>>
    chores,        \* table chores: row id = index, the household_id of the chore
    assignments,   \* table assignments (committed rows): row id = index
    today,         \* datetime.date.today(), a day number
    writer,        \* the worker whose connection holds the write lock, 0 if none
    pending,       \* the rows that connection has inserted and not committed
    pc,            \* per worker: the statement its handler is about to run
    loc,           \* per worker: the handler's local variables
    resp,          \* per worker: the last response it sent
    lastGen,       \* the last successful rotate response and its key
    ranked         \* the order pick_member_round_robin returned last

vars == <<members, chores, assignments, today, writer, pending, pc, loc, resp,
          lastGen, ranked>>

\* ------------------------------------------------------------------- dates
weekday(d) == d % DaysPerWeek

monday_of_week(d) == d - weekday(d)

iso_date(d) == (d \div DaysPerWeek) * 10 + weekday(d)

\* The week_start values a caller sends: the Mondays of two consecutive weeks.
WeekInputs == {iso_date(0), iso_date(DaysPerWeek)}

\* ------------------------------------------------------------ sorting
RECURSIVE TupleLess(_, _)
TupleLess(a, b) ==
    IF a = <<>> \/ b = <<>> THEN a = <<>> /\ b # <<>>
    ELSE IF Head(a) # Head(b) THEN Head(a) < Head(b)
    ELSE TupleLess(Tail(a), Tail(b))

\* Insert x in the sorted sequence s after every element not greater than it.
RECURSIVE SortedInsert(_, _)
SortedInsert(x, s) ==
    IF s = <<>> THEN <<x>>
    ELSE IF TupleLess(x, Head(s)) THEN <<x>> \o s
    ELSE <<Head(s)>> \o SortedInsert(x, Tail(s))

RECURSIVE SortTuples(_)
SortTuples(s) ==
    IF s = <<>> THEN <<>>
    ELSE SortedInsert(s[Len(s)], SortTuples(SubSeq(s, 1, Len(s) - 1)))

\* ------------------------------------------------------------ the queries
\* The row ids in S of a table of n rows, in id order.
RowIds(n, S) ==
    LET ids == [i \in 1..n |-> i]
        Selected(i) == i \in S
    IN SelectSeq(ids, Selected)

\* The chores of every household.
SelectChoresAny(ch, hid) == RowIds(Len(ch), 1..Len(ch))

\* SELECT id FROM chores WHERE household_id=? ORDER BY id ASC
SelectChores(ch, hid) ==
    RowIds(Len(ch), {i \in 1..Len(ch) : ch[i] = hid})

\* SELECT COUNT(*) FROM members WHERE household_id=?
CountMembers(mem, hid) ==
    Cardinality({i \in 1..Len(mem) : mem[i].household_id = hid})

\* SELECT COALESCE(MAX(join_order), 0)+1 FROM members WHERE household_id=?
RECURSIVE MaxOf(_)
MaxOf(S) ==
    IF S = {} THEN 0
    ELSE LET x == CHOOSE y \in S : TRUE
             m == MaxOf(S \ {x})
         IN IF x > m THEN x ELSE m

NextJoinOrder(mem, hid) ==
    MaxOf({mem[i].join_order : i \in {j \in 1..Len(mem) : mem[j].household_id = hid}}) + 1

\* The count of the household's assignments of any week.
CountAssignmentsAnyWeek(asg, hid, week_start) ==
    Cardinality({i \in 1..Len(asg) : asg[i].household_id = hid})

\* SELECT COUNT(*) FROM assignments WHERE household_id=? AND week_start=?
CountAssignments(asg, hid, week_start) ==
    Cardinality({i \in 1..Len(asg) :
        asg[i].household_id = hid /\ asg[i].week_start = week_start})

\* The members of every household, ORDER BY join_order ASC, id ASC.
SelectMembersAny(mem, hid) ==
    LET keyed == [k \in 1..Len(mem) |-> <<mem[k].join_order, k>>]
        sorted == SortTuples(keyed)
    IN [k \in 1..Len(sorted) |-> sorted[k][2]]

\* SELECT id, name, join_order FROM members WHERE household_id=?
\* ORDER BY join_order ASC, id ASC
SelectMembers(mem, hid) ==
    LET ids == RowIds(Len(mem), {i \in 1..Len(mem) : mem[i].household_id = hid})
        keyed == [k \in 1..Len(ids) |-> <<mem[ids[k]].join_order, ids[k]>>]
        sorted == SortTuples(keyed)
    IN [k \in 1..Len(sorted) |-> sorted[k][2]]

\* The counts over the assignments of every week.
HistBeforeAlways(asg, hid, week_start) ==
    LET rows == {i \in 1..Len(asg) : asg[i].household_id = hid}
        grp == {asg[i].member_id : i \in rows}
    IN [m \in grp |-> Cardinality({i \in rows : asg[i].member_id = m})]

\* The counts over the assignments of the weeks up to and including week_start.
HistBeforeInclusive(asg, hid, week_start) ==
    LET rows == {i \in 1..Len(asg) :
                    asg[i].household_id = hid /\ asg[i].week_start <= week_start}
        grp == {asg[i].member_id : i \in rows}
    IN [m \in grp |-> Cardinality({i \in rows : asg[i].member_id = m})]

\* SELECT member_id, COUNT(*) FROM assignments
\* WHERE household_id=? AND week_start < ? GROUP BY member_id
HistBefore(asg, hid, week_start) ==
    LET rows == {i \in 1..Len(asg) :
                    asg[i].household_id = hid /\ asg[i].week_start < week_start}
        grp == {asg[i].member_id : i \in rows}
    IN [m \in grp |-> Cardinality({i \in rows : asg[i].member_id = m})]

\* The sort with the count left out of the key.
ScoreAndSortByJoin(mem, ids, hist) ==
    LET scored == [k \in 1..Len(ids) |-> <<mem[ids[k]].join_order, ids[k]>>]
        sorted == SortTuples(scored)
    IN [k \in 1..Len(sorted) |-> sorted[k][2]]

\* scored.sort(key=(count, join_order, id)); return the member ids
ScoreAndSort(mem, ids, hist) ==
    LET scored == [k \in 1..Len(ids) |->
            <<IF ids[k] \in DOMAIN hist THEN hist[ids[k]] ELSE 0,
              mem[ids[k]].join_order, ids[k]>>]
        sorted == SortTuples(scored)
    IN [k \in 1..Len(sorted) |-> sorted[k][3]]

pick_member_round_robin(mem, asg, household_id, week_start) ==
    LET ids == SelectMembers(mem, household_id)
    IN IF ids = <<>> THEN <<>>
       ELSE ScoreAndSort(mem, ids, HistBefore(asg, household_id, week_start))

\* The rows get_current_assignments returns: the week's assignments joined with
\* their chore and member, ORDER BY a.id ASC.
JoinedRows(mem, ch, asg, hid, week_start) ==
    LET ids == RowIds(Len(asg), {i \in 1..Len(asg) :
                   /\ asg[i].household_id = hid
                   /\ asg[i].week_start = week_start
                   /\ asg[i].chore_id \in 1..Len(ch)
                   /\ asg[i].member_id \in 1..Len(mem)})
    IN [k \in 1..Len(ids) |-> [id |-> ids[k], row |-> asg[ids[k]]]]

\* get_current_assignments(hid): arg is request.args.get("week_start")
get_current_assignments(mem, ch, asg, day, hid, arg) ==
    LET week_start == IF arg = NoWeek THEN iso_date(monday_of_week(day)) ELSE arg
    IN [status |-> 200, week_start |-> week_start,
        assignments |-> JoinedRows(mem, ch, asg, hid, week_start)]

\* ------------------------------------------------------------ the workers
Loc0 == [op |-> "none", hid |-> 0, week_start |-> NoWeek, chores |-> <<>>,
         member_count |-> 0, ids |-> <<>>, order |-> <<>>, i |-> 0,
         join_order |-> 0, aid |-> 0, proof_url |-> NULL]

Resp(status, week_start, rows, id, join_order, proof_url) ==
    [status |-> status, week_start |-> week_start, assignments |-> rows,
     id |-> id, join_order |-> join_order, proof_url |-> proof_url]

NoResp == Resp(0, NoWeek, <<>>, 0, 0, NULL)

Error(status) == Resp(status, NoWeek, <<>>, 0, 0, NULL)

NoGen == [hid |-> 0, week_start |-> NoWeek, assignments |-> <<>>]

NoRank == [week_start |-> NoWeek, order |-> <<>>]

Ready(p) == pc[p] \in {"idle", "done"}

Quiescent == \A p \in Procs : Ready(p)

InFlight(o) == Cardinality({p \in Procs : ~Ready(p) /\ loc[p].op = o})

Finish(p, l, r) ==
    /\ pc' = [pc EXCEPT ![p] = "done"]
    /\ loc' = [loc EXCEPT ![p] = [l EXCEPT !.member_count = 0, !.ids = <<>>, !.order = <<>>]]
    /\ resp' = [resp EXCEPT ![p] = r]

Init ==
    /\ members = <<>>
    /\ chores = <<>>
    /\ assignments = <<>>
    /\ today = 3
    /\ writer = 0
    /\ pending = <<>>
    /\ pc = [p \in Procs |-> "idle"]
    /\ loc = [p \in Procs |-> Loc0]
    /\ resp = [p \in Procs |-> NoResp]
    /\ lastGen = NoGen
    /\ ranked = NoRank

\* The calendar moves on to the same weekday of the next week, within the weeks
\* the callers ask for.
Tick ==
    /\ iso_date(monday_of_week(today + DaysPerWeek)) \in WeekInputs
    /\ today' = today + DaysPerWeek
    /\ UNCHANGED <<members, chores, assignments, writer, pending, pc, loc, resp,
                   lastGen, ranked>>

\* add_member, up to the SELECT of the next join_order.
AddMemberSelect(p, hid) ==
    /\ Ready(p)
    /\ Len(members) + InFlight("add_member") < MaxMembers
    /\ loc' = [loc EXCEPT ![p] = [Loc0 EXCEPT !.op = "add_member", !.hid = hid,
                   !.join_order = NextJoinOrder(members, hid)]]
    /\ pc' = [pc EXCEPT ![p] = "am_insert"]
    /\ resp' = [resp EXCEPT ![p] = NoResp]
    /\ lastGen' = NoGen
    /\ UNCHANGED <<members, chores, assignments, today, writer, pending, ranked>>

\* add_member: the INSERT and the commit.
AddMemberInsert(p) ==
    /\ pc[p] = "am_insert"
    /\ writer = 0
    /\ members' = Append(members,
          [household_id |-> loc[p].hid, join_order |-> loc[p].join_order])
    /\ Finish(p, loc[p],
          Resp(200, NoWeek, <<>>, Len(members) + 1, loc[p].join_order, NULL))
    /\ lastGen' = NoGen
    /\ UNCHANGED <<chores, assignments, today, writer, pending, ranked>>

\* add_chore: one INSERT and the commit.
AddChore(p, hid) ==
    /\ Ready(p)
    /\ writer = 0
    /\ Len(chores) < MaxChores
    /\ chores' = Append(chores, hid)
    /\ Finish(p, [Loc0 EXCEPT !.op = "add_chore", !.hid = hid],
          Resp(200, NoWeek, <<>>, Len(chores) + 1, 0, NULL))
    /\ lastGen' = NoGen
    /\ UNCHANGED <<members, assignments, today, writer, pending, ranked>>

\* The row with the opposite status.
CompletedRowToggle(row, proof_url) ==
    [row EXCEPT !.status = IF row.status = "done" THEN "assigned" ELSE "done",
                !.proof_url = proof_url]

\* The row that keeps its proof when the request carries none.
CompletedRowKeepProof(row, proof_url) ==
    [row EXCEPT !.status = "done",
                !.proof_url = IF proof_url = NULL THEN row.proof_url ELSE proof_url]

\* SET status='done', proof_url=?
CompletedRow(row, proof_url) ==
    [row EXCEPT !.status = "done", !.proof_url = proof_url]

\* The UPDATE without its WHERE clause.
UpdateAssignmentsAll(asg, aid, proof_url) ==
    [i \in 1..Len(asg) |-> CompletedRow(asg[i], proof_url)]

\* UPDATE assignments SET status='done', proof_url=? WHERE id=?
UpdateAssignments(asg, aid, proof_url) ==
    [i \in 1..Len(asg) |-> IF i = aid THEN CompletedRow(asg[i], proof_url) ELSE asg[i]]

\* A rowcount that is never 0.
RowCountOne(asg, aid) == 1

\* cur.rowcount after the UPDATE
RowCount(asg, aid) == Cardinality({i \in 1..Len(asg) : i = aid})

\* complete_assignment, up to the UPDATE: the id of the URL and the proof_url of
\* the request, for one of the first MaxDone ids or the first id that no row has.
CompleteBegin(p) ==
    /\ Ready(p)
    /\ \E aid \in 1..(Len(assignments) + 1), proof_url \in Proofs :
          /\ aid \in 1..Len(assignments) => aid <= MaxDone
          /\ loc' = [loc EXCEPT ![p] = [Loc0 EXCEPT !.op = "complete", !.aid = aid,
                         !.proof_url = proof_url]]
    /\ pc' = [pc EXCEPT ![p] = "c_update"]
    /\ resp' = [resp EXCEPT ![p] = NoResp]
    /\ lastGen' = NoGen
    /\ UNCHANGED <<members, chores, assignments, today, writer, pending, ranked>>

\* complete_assignment: the UPDATE, and the commit when it changed a row.
CompleteAssignment(p) ==
    /\ pc[p] = "c_update"
    /\ writer = 0
    /\ IF RowCount(assignments, loc[p].aid) = 0
       THEN /\ assignments' = assignments
            /\ Finish(p, loc[p], Error(404))
       ELSE /\ assignments' = UpdateAssignments(assignments, loc[p].aid, loc[p].proof_url)
            /\ Finish(p, loc[p],
                   Resp(200, NoWeek, <<>>, loc[p].aid, 0, loc[p].proof_url))
    /\ lastGen' = NoGen
    /\ UNCHANGED <<members, chores, today, writer, pending, ranked>>

\* rotate, up to the choice of the week: w is the week_start of the request body.
RotateBegin(p, hid, w) ==
    /\ Ready(p)
    /\ LET week_start == IF w = NoWeek THEN iso_date(monday_of_week(today)) ELSE w
       IN /\ loc' = [loc EXCEPT ![p] = [Loc0 EXCEPT !.op = "rotate", !.hid = hid,
                      !.week_start = week_start]]
          /\ lastGen' = IF lastGen.hid = hid /\ lastGen.week_start = week_start
                        THEN lastGen ELSE NoGen
    /\ pc' = [pc EXCEPT ![p] = "r_check"]
    /\ resp' = [resp EXCEPT ![p] = NoResp]
    /\ UNCHANGED <<members, chores, assignments, today, writer, pending, ranked>>

\* rotate: "if already assigned, just return them".
RotateCheck(p) ==
    /\ pc[p] = "r_check"
    /\ pc' = [pc EXCEPT ![p] =
          IF CountAssignments(assignments, loc[p].hid, loc[p].week_start) > 0
          THEN "r_return" ELSE "r_chores"]
    /\ UNCHANGED <<members, chores, assignments, today, writer, pending, loc, resp,
                   lastGen, ranked>>

\* rotate: the SELECT of the chores.
RotateChores(p) ==
    /\ pc[p] = "r_chores"
    /\ loc' = [loc EXCEPT ![p].chores = SelectChores(chores, loc[p].hid)]
    /\ pc' = [pc EXCEPT ![p] = "r_count"]
    /\ UNCHANGED <<members, chores, assignments, today, writer, pending, resp,
                   lastGen, ranked>>

\* The precondition with the test of the chores left out.
InsufficientMembersOnly(chore_ids, member_count) == member_count = 0

\* rotate: "if not chores or member_count == 0"
InsufficientResources(chore_ids, member_count) ==
    chore_ids = <<>> \/ member_count = 0

\* rotate: the SELECT of the member count and the 400 for an empty household.
RotateCount(p) ==
    /\ pc[p] = "r_count"
    /\ LET member_count == CountMembers(members, loc[p].hid)
       IN IF InsufficientResources(loc[p].chores, member_count)
          THEN Finish(p, loc[p], Error(400))
          ELSE /\ loc' = [loc EXCEPT ![p].member_count = member_count]
               /\ pc' = [pc EXCEPT ![p] = "r_members"]
               /\ resp' = resp
    /\ UNCHANGED <<members, chores, assignments, today, writer, pending, lastGen,
                   ranked>>

\* pick_member_round_robin: the SELECT of the members.
RotateMembers(p) ==
    /\ pc[p] = "r_members"
    /\ LET ids == SelectMembers(members, loc[p].hid)
       IN IF ids = <<>>
          THEN Finish(p, loc[p], Error(400))
          ELSE /\ loc' = [loc EXCEPT ![p].ids = ids]
               /\ pc' = [pc EXCEPT ![p] = "r_hist"]
               /\ resp' = resp
    /\ UNCHANGED <<members, chores, assignments, today, writer, pending, lastGen,
                   ranked>>

\* pick_member_round_robin: the SELECT of the counts, the sort and the result.
RotateHist(p) ==
    /\ pc[p] = "r_hist"
    /\ loc' = [loc EXCEPT ![p].order = ScoreAndSort(members, loc[p].ids,
                  HistBefore(assignments, loc[p].hid, loc[p].week_start))]
    /\ pc' = [pc EXCEPT ![p] = "r_insert"]
    /\ UNCHANGED <<members, chores, assignments, today, writer, pending, resp,
                   lastGen, ranked>>

\* A table without the uniqueness constraint.
NoUniqueViolation(rows, hid, week_start, chore_id) == FALSE

\* UNIQUE(household_id, week_start, chore_id), as the inserting connection sees it.
UniqueViolation(rows, hid, week_start, chore_id) ==
    \E i \in 1..Len(rows) :
        /\ rows[i].household_id = hid
        /\ rows[i].week_start = week_start
        /\ rows[i].chore_id = chore_id

\* The row of the loop with the member index taken after "i += 1".
NewRowOffByOne(p) ==
    LET i == loc[p].i
    IN [household_id |-> loc[p].hid, week_start |-> loc[p].week_start,
        chore_id |-> loc[p].chores[i + 1],
        member_id |-> loc[p].order[((i + 1) % Len(loc[p].order)) + 1],
        status |-> "assigned", proof_url |-> NULL]

\* The row the loop inserts for chores[i]: member order[i % len(order)].
NewRow(p) ==
    LET i == loc[p].i
    IN [household_id |-> loc[p].hid, week_start |-> loc[p].week_start,
        chore_id |-> loc[p].chores[i + 1],
        member_id |-> loc[p].order[(i % Len(loc[p].order)) + 1],
        status |-> "assigned", proof_url |-> NULL]

\* A connection in autocommit mode: no row waits for a commit.
UncommittedNone(rows) == <<>>

\* The rows a connection has inserted since its implicit BEGIN: they stay in its
\* transaction, unseen by the other connections, until conn.commit().
Uncommitted(rows) == rows

\* The loop has a chore left, and no other connection holds the write lock.
CanInsert(p) ==
    /\ pc[p] = "r_insert"
    /\ writer \in {0, p}
    /\ loc[p].i < Len(loc[p].chores)

\* rotate: one INSERT of the loop; the first one takes the write lock, waiting
\* on the busy handler while another connection holds it.
RotateInsert(p) ==
    /\ CanInsert(p)
    /\ ~UniqueViolation(assignments \o pending, loc[p].hid, loc[p].week_start,
                        NewRow(p).chore_id)
    /\ LET rows == Append(pending, NewRow(p))
           held == Uncommitted(rows)
       IN /\ pending' = held
          /\ assignments' = assignments \o SubSeq(rows, Len(held) + 1, Len(rows))
    /\ writer' = p
    /\ loc' = [loc EXCEPT ![p].i = loc[p].i + 1]
    /\ UNCHANGED <<members, chores, today, pc, resp, lastGen, ranked>>

\* rotate: an INSERT raises sqlite3.IntegrityError, which nothing catches: the
\* connection is dropped with its transaction and the request ends in a 500.
RotateConflict(p) ==
    /\ CanInsert(p)
    /\ UniqueViolation(assignments \o pending, loc[p].hid, loc[p].week_start,
                       NewRow(p).chore_id)
    /\ pending' = <<>>
    /\ writer' = 0
    /\ Finish(p, loc[p], Error(500))
    /\ UNCHANGED <<members, chores, assignments, today, lastGen, ranked>>

\* rotate: conn.commit() after the loop; a loop that inserted nothing opened no
\* transaction and holds no lock.
RotateCommit(p) ==
    /\ pc[p] = "r_insert"
    /\ loc[p].i = Len(loc[p].chores)
    /\ writer \in {0, p}
    /\ assignments' = assignments \o pending
    /\ pending' = <<>>
    /\ writer' = 0
    /\ pc' = [pc EXCEPT ![p] = "r_return"]
    /\ UNCHANGED <<members, chores, today, loc, resp, lastGen, ranked>>

\* rotate: return get_current_assignments(hid); the request has no query string.
RotateReturn(p) ==
    /\ pc[p] = "r_return"
    /\ LET r == get_current_assignments(members, chores, assignments, today,
                                        loc[p].hid, NoWeek)
       IN /\ Finish(p, loc[p], Resp(200, r.week_start, r.assignments, 0, 0, NULL))
          /\ lastGen' = [hid |-> loc[p].hid, week_start |-> loc[p].week_start,
                         assignments |-> r.assignments]
    /\ UNCHANGED <<members, chores, assignments, today, writer, pending, ranked>>

Step(p) ==
    \/ AddMemberInsert(p)
    \/ RotateCheck(p)
    \/ RotateChores(p)
    \/ RotateCount(p)
    \/ RotateMembers(p)
    \/ RotateHist(p)
    \/ RotateInsert(p)
    \/ RotateCommit(p)
    \/ RotateReturn(p)

\* A request arrives at worker p, for a household of H and a week of W.
Start(p, H, W) ==
    \/ \E hid \in H : AddMemberSelect(p, hid)
    \/ \E hid \in H : AddChore(p, hid)
    \/ \E hid \in H, w \in W : RotateBegin(p, hid, w)

\* Requests served concurrently, one worker each, all for the current week.
Next ==
    \E p \in Procs :
        \/ Start(p, Households, {NoWeek})
        \/ Step(p)
        \/ RotateConflict(p)
        \/ CompleteBegin(p)
        \/ CompleteAssignment(p)

Spec == Init /\ [][Next]_vars

\* Requests served one at a time, for any of the weeks, while the calendar moves.
SeqNext ==
    \/ Tick
    \/ (Quiescent /\ Start(1, Households, WeekInputs \cup {NoWeek}))
    \/ (Quiescent /\ CompleteBegin(1))
    \/ Step(1)
    \/ CompleteAssignment(1)

SeqSpec == Init /\ [][SeqNext]_vars

\* The week_start texts a caller can send: the Mondays and a Wednesday.
DayInputs == WeekInputs \cup {iso_date(2)}

\* add_member, add_chore and rotate served one at a time, the week_start of a
\* rotate being any text a caller can send.
DayNext ==
    \/ (Quiescent /\ Start(1, Households, DayInputs \cup {NoWeek}))
    \/ Step(1)

DaySpec == Init /\ [][DayNext]_vars

\* The households of a store that serves two of them.
TwoHouseholds == {1, 2}

\* add_member, add_chore and rotate of two households served one at a time, for
\* this week and the next.
HouseNext ==
    \/ (Quiescent /\ Start(1, TwoHouseholds, {NoWeek, iso_date(DaysPerWeek)}))
    \/ Step(1)

HouseSpec == Init /\ [][HouseNext]_vars

\* The number of later weeks a household generates one after the other.
MaxFairWeeks == 3

FairWeeks == {iso_date(DaysPerWeek * k) : k \in 0..MaxFairWeeks}

\* The weeks after every week that has assignments.
LaterWeeks ==
    {w \in FairWeeks : \A i \in 1..Len(assignments) : assignments[i].week_start < w}

\* A household whose members all join before its first rotate, and whose weeks
\* are generated in increasing order while chores keep being added.
FairNext ==
    \/ /\ Quiescent
       /\ assignments = <<>>
       /\ \E hid \in Households : AddMemberSelect(1, hid)
    \/ (Quiescent /\ \E hid \in Households : AddChore(1, hid))
    \/ (Quiescent /\ \E hid \in Households, w \in LaterWeeks : RotateBegin(1, hid, w))
    \/ Step(1)

FairSpec == Init /\ [][FairNext]_vars

\* ---------------------------------------------- the ranker on its own
\* The rows of a household with one chore in which member m holds cnt[m] of the
\* weeks 1, 2, ...: the weeks of member 1 first, then those of member 2, ...
RECURSIVE RowsFromCounts(_, _)
RowsFromCounts(cnt, m) ==
    IF m = 0 THEN <<>>
    ELSE LET before == RowsFromCounts(cnt, m - 1)
         IN before \o [k \in 1..cnt[m] |->
                [household_id |-> 1,
                 week_start |-> iso_date(DaysPerWeek * (Len(before) + k)),
                 chore_id |-> 1, member_id |-> m,
                 status |-> "assigned", proof_url |-> NULL]]

\* A store of one household: n members who joined one after the other (the last
\* two with the same join_order when tie is set), one chore, and past weeks.
RankInit ==
    /\ \E n \in 1..MaxRankMembers, tie \in BOOLEAN :
          /\ members = [i \in 1..n |->
                [household_id |-> 1,
                 join_order |-> IF tie /\ i = n /\ n > 1 THEN i - 1 ELSE i]]
          /\ \E cnt \in [1..n -> 0..MaxCount] :
                assignments = RowsFromCounts(cnt, n)
    /\ chores = <<1>>
    /\ today = 3
    /\ writer = 0
    /\ pending = <<>>
    /\ pc = [p \in Procs |-> "idle"]
    /\ loc = [p \in Procs |-> Loc0]
    /\ resp = [p \in Procs |-> NoResp]
    /\ lastGen = NoGen
    /\ ranked = NoRank

\* pick_member_round_robin(conn, 1, week_start) for a Monday week_start
Rank ==
    /\ \E k \in 0..(Len(assignments) + 1) :
          LET week_start == iso_date(DaysPerWeek * k)
          IN ranked' = [week_start |-> week_start,
                        order |-> pick_member_round_robin(members, assignments, 1,
                                                          week_start)]
    /\ UNCHANGED <<members, chores, assignments, today, writer, pending, pc, loc,
                   resp, lastGen>>

RankSpec == RankInit /\ [][Rank]_vars

\* ------------------------------------------------- what the claims speak of
\* The ids of the assignments stored for (hid, week_start).
WeekIds(asg, hid, week_start) ==
    {i \in 1..Len(asg) : asg[i].household_id = hid /\ asg[i].week_start = week_start}

\* The set of assignments stored for (hid, week_start), each with its id.
StoredWeek(asg, hid, week_start) ==
    {[id |-> i, row |-> asg[i]] : i \in WeekIds(asg, hid, week_start)}

SeqRange(s) == {s[k] : k \in 1..Len(s)}

ChoresOf(hid) == {c \in 1..Len(chores) : chores[c] = hid}

MembersOf(hid) == {m \in 1..Len(members) : members[m].household_id = hid}

\* A worker whose rotate request has been answered.
Generated(p) == pc[p] = "done" /\ loc[p].op = "rotate"

\* The number of assignments of member m in the weeks before week_start.
CountBefore(asg, m, week_start) ==
    Cardinality({i \in 1..Len(asg) :
        asg[i].member_id = m /\ asg[i].week_start < week_start})

\* Member a comes no later than member b in the fair order of week_start.
FairLeq(asg, a, b, week_start) ==
    LET ca == CountBefore(asg, a, week_start)
        cb == CountBefore(asg, b, week_start)
        ja == members[a].join_order
        jb == members[b].join_order
    IN \/ ca < cb
       \/ ca = cb /\ ja < jb
       \/ ca = cb /\ ja = jb /\ a <= b

\* order lists every member of hid once, in the fair order of week_start.
IsFairOrder(order, asg, hid, week_start) ==
    /\ Len(order) = Cardinality(MembersOf(hid))
    /\ SeqRange(order) = MembersOf(hid)
    /\ \A i, j \in 1..Len(order) :
          i < j => FairLeq(asg, order[i], order[j], week_start)

\* The k-th chore of hid in creation order.
NthChore(hid, k) ==
    CHOOSE c \in ChoresOf(hid) : Cardinality({d \in ChoresOf(hid) : d < c}) = k - 1

\* The chore-to-member pairs of the rows stored for (hid, week_start).
WeekMapping(asg, hid, week_start) ==
    {<<asg[i].chore_id, asg[i].member_id>> : i \in WeekIds(asg, hid, week_start)}

\* The pairs that walking chore_ids over order in a cycle gives.
CycleMapping(chore_ids, order) ==
    {<<chore_ids[k], order[((k - 1) % Len(order)) + 1]>> : k \in 1..Len(chore_ids)}

\* The table asg without the rows whose ids are in D.
Without(asg, D) ==
    LET keep == RowIds(Len(asg), (1..Len(asg)) \ D)
    IN [k \in 1..Len(keep) |-> asg[keep[k]]]

\* The rotate of worker p found the week empty and has just committed its rows.
Created(p) == pc[p] = "r_return" /\ loc[p].chores # <<>>

\* The rotate of worker p found the week's rows: the replay path.
Replaying(p) ==
    /\ loc[p].op = "rotate"
    /\ pc[p] \in {"r_check", "r_return"}
    /\ loc[p].chores = <<>>
    /\ WeekIds(assignments, loc[p].hid, loc[p].week_start) # {}

\* ------------------------------------------------------------------ claims

\* C1: the assignment set a successful rotate(h, w) returns is the set of
\* assignments stored for (h, w) when it returns, also when w is not the
\* current week.
C1_ReturnsStoredWeek ==
    \A p \in Procs :
        (Generated(p) /\ resp[p].status = 200) =>
            SeqRange(resp[p].assignments) =
                StoredWeek(assignments, loc[p].hid, loc[p].week_start)

\* C2: once a row exists for (h, w), a further rotate(h, w) inserts and modifies
\* no row, answers 200 and, when nothing but rotate(h, w) ran since the last
\* successful rotate(h, w), returns the same assignment set as that call.
C2_GenerateIdempotent ==
    [][\A p \in Procs :
        (Replaying(p) /\ pc'[p] # pc[p]) =>
            /\ assignments' = assignments
            /\ pending' = pending
            /\ pc'[p] \in {"r_return", "done"}
            /\ pc'[p] = "done" =>
                  /\ resp'[p].status = 200
                  /\ (lastGen.hid = loc[p].hid /\ lastGen.week_start = loc[p].week_start)
                        => resp'[p].assignments = lastGen.assignments]_vars

\* C3 as stated: whenever a successful rotate(h, w) has returned, the store holds
\* as many assignments for (h, w) as h has chores at that moment.
C3_RowsEqualChores ==
    \A p \in Procs :
        (Generated(p) /\ resp[p].status = 200) =>
            Cardinality(WeekIds(assignments, loc[p].hid, loc[p].week_start)) =
                Cardinality(ChoresOf(loc[p].hid))

\* C3 amended: whenever a successful rotate(h, w) has returned, the store holds
\* one assignment for (h, w) per chore h had when the week's rows were created
\* (the first chores of h in creation order, at least one), never more than h
\* has chores, and one per chore of h when the returning call created the rows.
C3_RowsOnePerChoreAtCreation ==
    \A p \in Procs :
        (Generated(p) /\ resp[p].status = 200) =>
            LET hid == loc[p].hid
                ids == WeekIds(assignments, hid, loc[p].week_start)
                covered == {assignments[i].chore_id : i \in ids}
            IN /\ ids # {}
               /\ Cardinality(ids) = Cardinality(covered)
               /\ covered \subseteq ChoresOf(hid)
               /\ \A c \in covered, d \in ChoresOf(hid) : d < c => d \in covered
               /\ Cardinality(ids) <= Cardinality(ChoresOf(hid))
               /\ loc[p].chores # <<>> => covered = ChoresOf(hid)

\* A replay answered 200 for a week that has fewer rows than the household has
\* chores: a chore was added after the week was generated.
C3_ReplayAfterAddChore ==
    \E p \in Procs :
        /\ Generated(p) /\ resp[p].status = 200 /\ loc[p].chores = <<>>
        /\ WeekIds(assignments, loc[p].hid, loc[p].week_start) # {}
        /\ Cardinality(WeekIds(assignments, loc[p].hid, loc[p].week_start)) <
               Cardinality(ChoresOf(loc[p].hid))

\* C4: when two rotate calls for the same (h, w) have both returned, one of them
\* having created the rows from the chores h still has, exactly one set of rows
\* is stored for the week: one row per chore, no chore twice, no chore missing.
C4_RaceOneSet ==
    \A p, q \in Procs :
        (/\ p # q /\ Generated(p) /\ Generated(q)
         /\ loc[p].hid = loc[q].hid /\ loc[p].week_start = loc[q].week_start
         /\ resp[p].status = 200 /\ loc[p].chores # <<>>
         /\ SeqRange(loc[p].chores) = ChoresOf(loc[p].hid)) =>
            LET ids == WeekIds(assignments, loc[p].hid, loc[p].week_start)
            IN /\ Cardinality(ids) = Cardinality(ChoresOf(loc[p].hid))
               /\ \A c \in ChoresOf(loc[p].hid) :
                     Cardinality({i \in ids : assignments[i].chore_id = c}) = 1

\* Two rotate calls raced for one week: one created the rows, the insert of the
\* other was rejected, and both have returned.
C4_BothReturned ==
    \E p, q \in Procs :
        /\ p # q /\ Generated(p) /\ Generated(q)
        /\ loc[p].hid = loc[q].hid /\ loc[p].week_start = loc[q].week_start
        /\ resp[p].status = 200 /\ loc[p].chores # <<>>
        /\ SeqRange(loc[p].chores) = ChoresOf(loc[p].hid)
        /\ Cardinality(ChoresOf(loc[p].hid)) > 1
        /\ resp[q].status = 500

\* C5: a rotate whose insert the uniqueness constraint rejects re-reads the
\* committed rows and answers with them: no rotate ends in an error other than
\* the 400 of an empty household.
C5_ConflictNeverSurfaced ==
    \A p \in Procs : Generated(p) => resp[p].status \in {200, 400}

\* C6: at most one assignment exists for each (household, weekStart, chore),
\* among the committed rows and the rows of the open transaction.
C6_UniquePerChore ==
    LET all == assignments \o pending
    IN \A i, j \in 1..Len(all) :
          (/\ all[i].household_id = all[j].household_id
           /\ all[i].week_start = all[j].week_start
           /\ all[i].chore_id = all[j].chore_id) => i = j

\* The constraint has rejected the insert of one worker while the worker that
\* created the week's rows has just committed them.
C6_ConflictRejected ==
    \E p, q \in Procs :
        /\ Generated(p) /\ resp[p].status = 500
        /\ Created(q)
        /\ loc[p].hid = loc[q].hid /\ loc[p].week_start = loc[q].week_start

\* C7: the order the ranker returns for a week lists every member of the
\* household once, ascending by (assignments before the week, joinOrder, id);
\* counts [3,1,1,2] with joinOrders [1,2,3,4] give [2,3,4,1].
C7_FairOrder ==
    ranked.week_start # NoWeek =>
        /\ IsFairOrder(ranked.order, assignments, 1, ranked.week_start)
        /\ (/\ Len(members) = 4
            /\ \A m \in 1..4 : members[m].join_order = m
            /\ [m \in 1..4 |-> CountBefore(assignments, m, ranked.week_start)]
                   = <<3, 1, 1, 2>>) => ranked.order = <<2, 3, 4, 1>>

\* The ranker has ranked four members with counts [3,1,1,2] and joinOrders
\* [1,2,3,4], a later week of member 4 not being counted.
C7_Example ==
    /\ ranked.week_start # NoWeek
    /\ Len(members) = 4
    /\ \A m \in 1..4 : members[m].join_order = m
    /\ [m \in 1..4 |-> CountBefore(assignments, m, ranked.week_start)] = <<3, 1, 1, 2>>
    /\ \E i \in 1..Len(assignments) : assignments[i].week_start >= ranked.week_start
    /\ ranked.order = <<2, 3, 4, 1>>

\* C8: the rows a rotate creates assign the chore at position i of the
\* household's chores in creation order to fairOrder[i mod len(fairOrder)],
\* each with status assigned and no proof.
C8_CyclicAssignment ==
    \A p \in Procs :
        Created(p) =>
            LET hid == loc[p].hid
                w == loc[p].week_start
                n == Cardinality(ChoresOf(hid))
                ids == WeekIds(assignments, hid, w)
                fair == CHOOSE o \in [1..Cardinality(MembersOf(hid)) -> MembersOf(hid)] :
                            IsFairOrder(o, assignments, hid, w)
            IN /\ Cardinality(ids) = n
               /\ \A k \in 1..n :
                     \E i \in ids :
                        /\ assignments[i].chore_id = NthChore(hid, k)
                        /\ assignments[i].member_id = fair[((k - 1) % Len(fair)) + 1]
                        /\ assignments[i].status = "assigned"
                        /\ assignments[i].proof_url = NULL

\* A rotate has created the rows of a household with more chores than members,
\* the member who joined second coming first in the fair order because of an
\* earlier week: the third chore went to that member again.
C8_MoreChoresThanMembers ==
    \E p \in Procs :
        /\ Created(p)
        /\ Cardinality(MembersOf(loc[p].hid)) = 2
        /\ Cardinality(ChoresOf(loc[p].hid)) = 3
        /\ loc[p].order = <<2, 1>>
        /\ WeekMapping(assignments, loc[p].hid, loc[p].week_start) =
               {<<1, 2>>, <<2, 1>>, <<3, 2>>}

\* C9: the mapping a rotate creates for week w is the one the ranker and the
\* cycle give on every store that differs from this one only in assignments of
\* weeks after w.
C9_LaterWeeksIgnored ==
    \A p \in Procs :
        Created(p) =>
            LET hid == loc[p].hid
                w == loc[p].week_start
                now == WeekIds(assignments, hid, w)
                later == {i \in 1..Len(assignments) :
                             /\ assignments[i].household_id = hid
                             /\ assignments[i].week_start > w}
            IN \A D \in SUBSET later :
                  WeekMapping(assignments, hid, w) =
                      CycleMapping(SelectChores(chores, hid),
                          pick_member_round_robin(members,
                              Without(assignments, D \cup now), hid, w))

\* A rotate has created the rows of a week after a later week was generated,
\* and counting the later week's rows would have changed the order.
C9_OutOfOrder ==
    \E p \in Procs :
        /\ Created(p)
        /\ \E i \in 1..Len(assignments) :
              assignments[i].week_start > loc[p].week_start
        /\ ScoreAndSort(members, SelectMembers(members, loc[p].hid),
               HistBeforeAlways(Without(assignments,
                   WeekIds(assignments, loc[p].hid, loc[p].week_start)),
                   loc[p].hid, loc[p].week_start))
             # loc[p].order

\* C10: a rotate on a household without members or without chores answers 400,
\* and no assignment of the household exists, committed or pending.
C10_InsufficientResources ==
    \A p \in Procs :
        (Generated(p) /\ (MembersOf(loc[p].hid) = {} \/ ChoresOf(loc[p].hid) = {})) =>
            /\ resp[p].status = 400
            /\ \A i \in 1..Len(assignments) : assignments[i].household_id # loc[p].hid
            /\ pending = <<>>

\* A rotate was refused for a household that has a member and no chore.
C10_NoChores ==
    \E p \in Procs :
        /\ Generated(p) /\ resp[p].status = 400
        /\ MembersOf(loc[p].hid) # {}
        /\ ChoresOf(loc[p].hid) = {}


\* A worker whose complete request has been answered.
Completed(p) == pc[p] = "done" /\ loc[p].op = "complete"

\* The step in which worker p runs the UPDATE of its complete request.
Completing(p) == pc[p] = "c_update" /\ pc'[p] = "done"

\* C11: complete(id, proof) on an assignment that exists sets the status of that
\* row to done and its proof to the value of the request (null when it carries
\* none), and changes nothing else: the household, week, chore and member of the
\* row, every other assignment, the members and the chores stay as they were.
C11_CompleteFrame ==
    [][\A p \in Procs :
          (Completing(p) /\ loc[p].aid \in 1..Len(assignments)) =>
             LET aid == loc[p].aid
             IN /\ resp'[p].status = 200
                /\ Len(assignments') = Len(assignments)
                /\ assignments'[aid].status = "done"
                /\ assignments'[aid].proof_url = loc[p].proof_url
                /\ assignments'[aid].household_id = assignments[aid].household_id
                /\ assignments'[aid].week_start = assignments[aid].week_start
                /\ assignments'[aid].chore_id = assignments[aid].chore_id
                /\ assignments'[aid].member_id = assignments[aid].member_id
                /\ \A i \in 1..Len(assignments) :
                      i # aid => assignments'[i] = assignments[i]
                /\ members' = members
                /\ chores' = chores]_vars

\* A complete with a proof has been answered, its row is done with that proof,
\* and another row of the table is still assigned.
C11_CompletedWithProof ==
    \E p \in Procs :
        /\ Completed(p)
        /\ resp[p].status = 200
        /\ loc[p].proof_url = "u1"
        /\ assignments[loc[p].aid].status = "done"
        /\ assignments[loc[p].aid].proof_url = "u1"
        /\ \E i \in 1..Len(assignments) : assignments[i].status = "assigned"

\* C12: complete on an id that no assignment has is answered 404 and leaves
\* every row of every table as it was.
C12_CompleteNotFound ==
    [][\A p \in Procs :
          (Completing(p) /\ loc[p].aid \notin 1..Len(assignments)) =>
             /\ resp'[p].status = 404
             /\ assignments' = assignments
             /\ members' = members
             /\ chores' = chores
             /\ pending' = pending]_vars

\* A complete has been answered 404 while the table holds assignments.
C12_NotFoundWithRows ==
    \E p \in Procs :
        /\ Completed(p)
        /\ resp[p].status = 404
        /\ loc[p].aid = Len(assignments) + 1
        /\ Len(assignments) > 1

\* C13: an assignment, once created, is never deleted and never changes its
\* household, week, chore or member; its status only moves from assigned to
\* done; and a step that creates assignments modifies no existing row.
C13_RowsAreStable ==
    [][/\ Len(assignments') >= Len(assignments)
       /\ \A i \in 1..Len(assignments) :
             /\ assignments'[i].household_id = assignments[i].household_id
             /\ assignments'[i].week_start = assignments[i].week_start
             /\ assignments'[i].chore_id = assignments[i].chore_id
             /\ assignments'[i].member_id = assignments[i].member_id
             /\ assignments[i].status = "done" => assignments'[i].status = "done"
             /\ Len(assignments') > Len(assignments) =>
                   assignments'[i] = assignments[i]]_vars

\* A week has just been created while a row of an earlier creation is done.
C13_CreatedAfterDone ==
    \E p \in Procs :
        /\ Created(p)
        /\ \E i \in 1..Len(assignments) :
              /\ assignments[i].status = "done"
              /\ assignments[i].week_start # loc[p].week_start

\* C14: in every reachable state, concurrent add-member calls included, no two
\* members of one household share a join_order.
C14_JoinOrderUnique ==
    \A m1, m2 \in 1..Len(members) :
        (m1 # m2 /\ members[m1].household_id = members[m2].household_id)
            => members[m1].join_order # members[m2].join_order

\* C16: complete on an assignment that is already done succeeds, leaves the
\* status done and overwrites the proof with the one of the request (or null).
C16_CompleteAgain ==
    [][\A p \in Procs :
          (/\ Completing(p)
           /\ loc[p].aid \in 1..Len(assignments)
           /\ assignments[loc[p].aid].status = "done") =>
             /\ resp'[p].status = 200
             /\ resp'[p].proof_url = loc[p].proof_url
             /\ assignments'[loc[p].aid].status = "done"
             /\ assignments'[loc[p].aid].proof_url = loc[p].proof_url]_vars

\* Two completes of one assignment have been answered, one with a proof and one
\* without: the row is done and the proof of the first one is gone.
C16_ProofOverwrittenByNull ==
    \E p, q \in Procs :
        /\ p # q
        /\ Completed(p) /\ Completed(q)
        /\ resp[p].status = 200 /\ resp[q].status = 200
        /\ loc[p].aid = loc[q].aid
        /\ loc[q].proof_url = "u1"
        /\ loc[p].proof_url = NULL
        /\ assignments[loc[p].aid].status = "done"
        /\ assignments[loc[p].aid].proof_url = NULL

\* The weeks of the rows of a table.
WeeksOf(asg) == {asg[i].week_start : i \in 1..Len(asg)}

\* The step in which worker p commits the rows of its rotate request.
Committing(p) == pc[p] = "r_insert" /\ pc'[p] = "r_return"

\* C17: the rows of a week are created as one unit: the committed assignments
\* of (household, week), which are what another request can see, change only
\* from none to one row for every chore of the list the creating call read, in
\* the step of its commit; and a call that ends in an error leaves no row.
C17_WeekCreatedAsUnit ==
    [][/\ \A h \in Households, w \in WeeksOf(assignments') :
             WeekIds(assignments', h, w) # WeekIds(assignments, h, w) =>
                /\ WeekIds(assignments, h, w) = {}
                /\ \E p \in Procs :
                      /\ Committing(p)
                      /\ loc[p].hid = h /\ loc[p].week_start = w
                      /\ Cardinality(WeekIds(assignments', h, w)) = Len(loc[p].chores)
                      /\ \A k \in 1..Len(loc[p].chores) :
                            \E i \in WeekIds(assignments', h, w) :
                                assignments'[i].chore_id = loc[p].chores[k]
       /\ \A p \in Procs :
             (pc[p] = "r_insert" /\ pc'[p] = "done") =>
                /\ assignments' = assignments
                /\ pending' = <<>>]_vars

\* A rotate has inserted some of the rows of its week and not yet all, while
\* another rotate of the same week is under way and no row of the week is visible.
C17_HalfInserted ==
    \E p, q \in Procs :
        /\ p # q
        /\ writer = p
        /\ pc[p] = "r_insert"
        /\ Len(pending) > 0 /\ Len(pending) < Len(loc[p].chores)
        /\ WeekIds(assignments, loc[p].hid, loc[p].week_start) = {}
        /\ pc[q] \in {"r_check", "r_chores", "r_count", "r_members", "r_hist", "r_insert"}
        /\ loc[q].hid = loc[p].hid /\ loc[q].week_start = loc[p].week_start


\* A week_start text that is the date of a Monday: its weekday digit is 0.
IsMondayText(t) == t % 10 = 0

\* C15: the week_start of every stored assignment is the date of a Monday,
\* whether the caller sent it or the handler took today's week.
C15_WeekStartIsMonday ==
    \A i \in 1..Len(assignments) : IsMondayText(assignments[i].week_start)

\* The number of assignments of member m, over all weeks.
TotalOf(m) ==
    Cardinality({i \in 1..Len(assignments) : assignments[i].member_id = m})

\* C18: for a household whose members are fixed and whose weeks are generated
\* in strictly increasing order from an empty table, after every rotate the
\* totals of any two of its members differ by at most 1, whatever its chores.
C18_TotalsBalanced ==
    \A h \in Households : \A m1, m2 \in MembersOf(h) :
        TotalOf(m1) - TotalOf(m2) <= 1

\* Two members and three chores: the second week has just been created and the
\* member who got one chore in the first week has caught up.
C18_CaughtUp ==
    /\ Created(1)
    /\ Len(members) = 2
    /\ Len(loc[1].chores) = 3
    /\ loc[1].order = <<2, 1>>
    /\ TotalOf(1) = 3
    /\ TotalOf(2) = 3

\* The ids of the members and of the chores of household h, in id order.
OwnMembers(h) == RowIds(Len(members), MembersOf(h))

OwnChores(h) == RowIds(Len(chores), ChoresOf(h))

\* The position of x in ids, 0 when it is not there.
RankIn(ids, x) ==
    IF \E k \in 1..Len(ids) : ids[k] = x
    THEN CHOOSE k \in 1..Len(ids) : ids[k] = x
    ELSE 0

\* The store of household h on its own: its members, its chores and its
\* assignments, renumbered as if no other household had ever written a row.
AloneMembers(h) == [k \in 1..Len(OwnMembers(h)) |-> members[OwnMembers(h)[k]]]

AloneChores(h) == [k \in 1..Len(OwnChores(h)) |-> h]

AloneAssignments(h) ==
    LET ids == RowIds(Len(assignments),
                   {i \in 1..Len(assignments) : assignments[i].household_id = h})
    IN [k \in 1..Len(ids) |->
           [assignments[ids[k]] EXCEPT
               !.chore_id = RankIn(OwnChores(h), @),
               !.member_id = RankIn(OwnMembers(h), @)]]

\* The chore-to-member pairs rotate gives h for week_start in the store of h on
\* its own, in the ids of the shared store.
AloneMapping(h, week_start) ==
    LET alone == CycleMapping(SelectChores(AloneChores(h), h),
                     pick_member_round_robin(AloneMembers(h), AloneAssignments(h),
                                             h, week_start))
    IN {<<OwnChores(h)[cm[1]], OwnMembers(h)[cm[2]]>> : cm \in alone}

\* C19: households are independent: the rotate of household h for week w
\* creates rows of h and w only, leaves every stored row as it was, and gives
\* the chore-to-member pairs it would give if h were the only household.
C19_HouseholdsIndependent ==
    [][\A p \in Procs :
          Committing(p) =>
             LET h == loc[p].hid
                 w == loc[p].week_start
                 new == (Len(assignments) + 1)..Len(assignments')
             IN /\ Len(assignments') > Len(assignments)
                /\ \A i \in 1..Len(assignments) : assignments'[i] = assignments[i]
                /\ \A i \in new :
                      /\ assignments'[i].household_id = h
                      /\ assignments'[i].week_start = w
                /\ {<<assignments'[i].chore_id, assignments'[i].member_id>> : i \in new}
                      = AloneMapping(h, w)]_vars

\* Household 1 has just got its rows of the next week while household 2 has a
\* member, a chore and the rows of this week.
C19_OtherHouseholdHasRows ==
    /\ Created(1)
    /\ loc[1].hid = 1
    /\ loc[1].week_start = iso_date(DaysPerWeek)
    /\ MembersOf(2) # {}
    /\ ChoresOf(2) # {}
    /\ WeekIds(assignments, 2, iso_date(0)) # {}

\* C20: in every reachable state the chore and the member of an assignment
\* exist and belong to the household of the assignment.
C20_ReferencesInHousehold ==
    \A i \in 1..Len(assignments) :
        /\ assignments[i].chore_id \in ChoresOf(assignments[i].household_id)
        /\ assignments[i].member_id \in MembersOf(assignments[i].household_id)

\* Both households have assignments.
C20_BothHouseholdsAssigned ==
    /\ \E i \in 1..Len(assignments) : assignments[i].household_id = 1
    /\ \E i \in 1..Len(assignments) : assignments[i].household_id = 2

====
